---------------------------- MODULE Spec2Model ----------------------------
(***************************************************************************)
(* The Bloom filter of the "Bloom filter for quick lookups" article        *)
(* (class BloomFilter, TypeScript listing): constructor, getSize,          *)
(* getHashCount, add, check and murmurhash3_32_gc.                         *)
(*                                                                         *)
(* A string is the sequence of its UTF-16 code units.  A 32-bit word is    *)
(* the pair <<hi, lo>> of its 16-bit halves, so that no intermediate value *)
(* leaves the range of the checker's integers; the JavaScript bitwise      *)
(* operators act on the 32-bit value of their operands, which the pair     *)
(* holds exactly.                                                          *)
(***************************************************************************)
EXTENDS Integers, Sequences, FiniteSets, TLC

(***************************************************************************)
(* 32-bit words                                                            *)
(***************************************************************************)
Half == 65536

Byte == 256

\* x & y on 16-bit operands (bit by bit, from the low bit)
RECURSIVE And16(_, _)
And16(x, y) ==
    IF x = 0 \/ y = 0 THEN 0
    ELSE (IF x % 2 = 1 /\ y % 2 = 1 THEN 1 ELSE 0) + 2 * And16(x \div 2, y \div 2)

\* x | y on 16-bit operands
RECURSIVE Or16(_, _)
Or16(x, y) ==
    IF x = 0 THEN y
    ELSE IF y = 0 THEN x
    ELSE (IF x % 2 = 1 \/ y % 2 = 1 THEN 1 ELSE 0) + 2 * Or16(x \div 2, y \div 2)

\* x ^ y on 16-bit operands
RECURSIVE Xor16(_, _)
Xor16(x, y) ==
    IF x = 0 THEN y
    ELSE IF y = 0 THEN x
    ELSE (IF x % 2 # y % 2 THEN 1 ELSE 0) + 2 * Xor16(x \div 2, y \div 2)

RECURSIVE Pow2(_)
Pow2(n) == IF n = 0 THEN 1 ELSE 2 * Pow2(n - 1)

\* the 32-bit words
Word == Nat \X Nat

\* ToInt32 / ToUint32 of a small non-negative integer (a char code, a seed, a length)
ToWord(n) == <<(n \div Half) % Half, n % Half>>

AndW[a \in Word, b \in Word] == <<And16(a[1], b[1]), And16(a[2], b[2])>>

OrW[a \in Word, b \in Word] == <<Or16(a[1], b[1]), Or16(a[2], b[2])>>

XorW[a \in Word, b \in Word] == <<Xor16(a[1], b[1]), Xor16(a[2], b[2])>>

\* a << n, 0 <= n < 32
ShlW[a \in Word, n \in Nat] ==
    IF n >= 16
    THEN <<(a[2] * Pow2(n - 16)) % Half, 0>>
    ELSE <<((a[1] * Pow2(n)) % Half) + (a[2] \div Pow2(16 - n)), (a[2] * Pow2(n)) % Half>>

\* a >>> n, 0 <= n < 32
ShrW[a \in Word, n \in Nat] ==
    IF n >= 16
    THEN <<0, a[1] \div Pow2(n - 16)>>
    ELSE <<a[1] \div Pow2(n), ((a[1] % Pow2(n)) * Pow2(16 - n)) + (a[2] \div Pow2(n))>>

\* (a + b) modulo 2^32
AddW[a \in Word, b \in Word] ==
    <<(a[1] + b[1] + ((a[2] + b[2]) \div Half)) % Half, (a[2] + b[2]) % Half>>

\* (t1 * 256 + t0) modulo 2^32, for t1 and t0 below 2^24
Mul16Sum[t1 \in Nat, t0 \in Nat] ==
    <<((t1 \div Byte) + ((((t1 % Byte) * Byte) + t0) \div Half)) % Half,
      (((t1 % Byte) * Byte) + t0) % Half>>

\* the product of two 16-bit operands (it is below 2^32), formed from the
\* products of each byte of x with y
Mul16[x \in Nat, y \in Nat] == Mul16Sum[(x \div Byte) * y, (x % Byte) * y]

\* p + (q << 16), modulo 2^32
AddShifted[p \in Word, q \in Word] == <<(p[1] + q[2]) % Half, p[2]>>

\* (x * c) modulo 2^32 for a 16-bit x and a 32-bit c
MulHalfW[x \in Nat, c \in Word] == AddShifted[Mul16[x, c[2]], Mul16[x, c[1]]]

\* the source's 32-bit multiplication idiom:
\*   (((k & 0xffff) * c) + ((((k >>> 16) * c) & 0xffff) << 16)) & 0xffffffff
MulW[k \in Word, c \in Word] ==
    AddW[MulHalfW[And16(k[2], 65535), c],
         ShlW[AndW[MulHalfW[ShrW[k, 16][2], c], <<0, 65535>>], 16]]

\* (a << n) | (a >>> (32 - n))
Rotl[a \in Word, n \in Nat] == OrW[ShlW[a, n], ShrW[a, 32 - n]]

\* h ^= h >>> n
XorShr[h \in Word, n \in Nat] == XorW[h, ShrW[h, n]]

\* (w >>> 0) % m for 0 < m < 2^15
ModW(w, m) == (((w[1] % m) * (Half % m)) + w[2]) % m

(***************************************************************************)
(* murmurhash3_32_gc(key, seed).  h1 is kept modulo 2^32: after the        *)
(* un-masked sum that ends the loop body, every use of h1 is an operand of *)
(* a bitwise operator, which takes it modulo 2^32.                         *)
(***************************************************************************)
c1 == <<52382, 11601>>      \* 0xcc9e2d51

c2 == <<7047, 13715>>       \* 0x1b873593

\* key.charCodeAt(i), for the 0-based index i
charCodeAt(key, i) == key[i + 1]

\* a variant of LowByte: the whole code unit, unmasked
CodeUnit(key, i) == <<0, charCodeAt(key, i)>>

\* key.charCodeAt(i) & 0xff
LowByte(key, i) == <<0, And16(charCodeAt(key, i), 255)>>

\* k1 of the loop body: the low bytes of the four code units at i .. i+3
Gather(key, i) ==
    OrW[OrW[LowByte(key, i), ShlW[LowByte(key, i + 1), 8]],
        OrW[ShlW[LowByte(key, i + 2), 16], ShlW[LowByte(key, i + 3), 24]]]

\* the k1 scramble: * c1, rotate left 15, * c2
MixK1[k1 \in Word] == MulW[Rotl[MulW[k1, c1], 15], c2]

\* h1 = ((h1b & 0xffff) + 0x6b64) + ((((h1b >>> 16) + 0xe654) & 0xffff) << 16)
AddMagic[h1b \in Word] ==
    AddW[AddW[<<0, And16(h1b[2], 65535)>>, <<0, 27492>>],
         ShlW[AndW[AddW[ShrW[h1b, 16], <<0, 58964>>], <<0, 65535>>], 16]]

\* one pass of the while loop over the four code units at i .. i+3
BodyStep(key, i, h1) ==
    AddMagic[MulW[Rotl[XorW[h1, MixK1[Gather(key, i)]], 13], <<0, 5>>]]

RECURSIVE BodyLoop(_, _, _, _)
BodyLoop(key, i, bytes, h1) ==
    IF i < bytes THEN BodyLoop(key, i + 4, bytes, BodyStep(key, i, h1)) ELSE h1

\* k1 of the switch on the remainder, with its fall-through from case 3 to 1
TailK1(key, i, remainder) ==
    XorW[XorW[IF remainder = 3 THEN ShlW[LowByte(key, i + 2), 16] ELSE <<0, 0>>,
              IF remainder >= 2 THEN ShlW[LowByte(key, i + 1), 8] ELSE <<0, 0>>],
         LowByte(key, i)]

\* the switch on the remainder
TailSwitch(key, i, remainder, h1) ==
    IF remainder = 0 THEN h1 ELSE XorW[h1, MixK1[TailK1(key, i, remainder)]]

\* h1 ^= key.length and the final mix (0x85ebca6b, 0xc2b2ae35)
Finalize(h1, length) ==
    XorShr[MulW[XorShr[MulW[XorShr[XorW[h1, ToWord(length)], 16],
                            <<34283, 51819>>], 13],
                <<49842, 44597>>], 16]

\* the hash as the unsigned 32-bit word that  return h1 >>> 0  yields
murmurhash3_32_gc(key, seed) ==
    Finalize(TailSwitch(key, Len(key) - (Len(key) % 4), Len(key) % 4,
                        BodyLoop(key, 0, Len(key) - (Len(key) % 4), ToWord(seed))),
             Len(key))

(***************************************************************************)
(* The inputs of the model                                                 *)
(***************************************************************************)
\* the strings: "", "a", "šb" (code units 353, 98) and "abcde"
Items == {<<>>, <<97>>, <<353, 98>>, <<97, 98, 99, 100, 101>>}

\* expectedItems arguments
ExpectedItemsValues == {-1, 0, 1, 2}

\* falsePositiveRate arguments, in hundredths: -0.5, 0, 0.01, 0.1, 0.5, 1, 1.5
RateValues == {-50, 0, 1, 10, 50, 100, 150}

\* the add calls made on one instance
MaxAdds == 3

\* the seeds whose hash values are computed once
MaxSeed == 6

\* the inputs of the two-filter specification
PairItems == {<<97>>, <<353, 98>>}

PairExpectedItems == {1, 2}

PairRates == {10}

\* the strings of the example usage
apple == <<97, 112, 112, 108, 101>>

banana == <<98, 97, 110, 97, 110, 97>>

orange == <<111, 114, 97, 110, 103, 101>>

grape == <<103, 114, 97, 112, 101>>

kiwi == <<107, 105, 119, 105>>

\* the example usage: its constructor arguments (1000, 0.01), beside the small
\* filter of (1, 0.13); the items it adds and the items it checks
ExampleArgs == {<<1000, 1>>, <<1, 13>>}

ExampleAdded == {apple, banana, orange}

ExampleChecked == {apple, banana, grape, kiwi}

\* the hash values of the strings of the model, computed once
\* strings that differ only above the low 8 bits of their code units ("ab"
\* and "\u0161b"; "abcde" and "\u0161\u0262cd\u0165"), and "ac", which differs
\* from "ab" in a low byte
CollideItems ==
    {<<97, 98>>, <<353, 98>>, <<97, 99>>,
     <<97, 98, 99, 100, 101>>, <<353, 610, 99, 100, 357>>}

\* the constructor arguments of the filters they are added to
CollideArgs == {<<1, 10>>, <<2, 10>>}

Hashes ==
    [key \in Items \cup ExampleAdded \cup ExampleChecked \cup CollideItems |->
       [seed \in 0..MaxSeed |-> murmurhash3_32_gc(key, seed)]]

(***************************************************************************)
(* JavaScript numbers of the constructor: a finite value, NaN or an        *)
(* infinity.  A finite non-integer is held in units of 1/Scale.            *)
(***************************************************************************)
Scale == 100000000

Fin(v) == [kind |-> "fin", v |-> v]

NaN == [kind |-> "nan", v |-> 0]

Infinity(sign) == [kind |-> "inf", v |-> sign]

Sign(x) == IF x > 0 THEN 1 ELSE IF x < 0 THEN -1 ELSE 0

Abs(x) == IF x < 0 THEN -x ELSE x

\* <<q, rem>> with n * r = q * d + rem and 0 <= rem < d, for n >= 0, without
\* forming the product n * r
RECURSIVE MulDiv(_, _, _)
MulDiv(n, r, d) ==
    IF n = 0 THEN <<0, 0>>
    ELSE LET h == MulDiv(n \div 2, r, d)
             t == (2 * h[2]) + ((n % 2) * r)
         IN  <<(2 * h[1]) + (t \div d), t % d>>

\* Math.log(2), in units of 1/Scale
LN2 == 69314718

\* Math.log(p) for the rates of the model; a rate is given in hundredths
\* (1 is p = 0.01): NaN below 0, -Infinity at 0, else in units of 1/Scale
MathLog(p) ==
    IF p < 0 THEN NaN
    ELSE IF p = 0 THEN Infinity(-1)
    ELSE CASE p = 1   -> Fin(-460517019)
           [] p = 10  -> Fin(-230258509)
           [] p = 13  -> Fin(-204022083)
           [] p = 50  -> Fin(-69314718)
           [] p = 90  -> Fin(-10536052)
           [] p = 99  -> Fin(-1005034)
           [] p = 100 -> Fin(0)
           [] p = 150 -> Fin(40546511)
           [] p = 200 -> Fin(69314718)

\* Math.ceil of sign * (q + rem/d), q and rem >= 0 (ceil of a value in (-1, 0]
\* is -0, which every later use treats as 0)
MathCeil(sign, q, rem) ==
    IF sign > 0 THEN Fin(q + (IF rem > 0 THEN 1 ELSE 0))
    ELSE IF sign < 0 THEN Fin(-q)
    ELSE Fin(0)

\* getSize(n, p): Math.ceil(-(n * Math.log(p)) / (Math.log(2) ** 2))
getSize(n, p) ==
    LET lp == MathLog(p)
        ln2sq == MulDiv(LN2, LN2, Scale)[1]
        qr == MulDiv(Abs(n), Abs(lp.v), ln2sq)
    IN  CASE lp.kind = "nan" -> NaN
          [] lp.kind = "inf" -> IF n = 0 THEN NaN ELSE Infinity(-(Sign(n) * lp.v))
          [] OTHER -> MathCeil(-(Sign(n) * Sign(lp.v)), qr[1], qr[2])

\* getHashCount(m, n): Math.ceil((m / n) * Math.log(2))
getHashCount(m, n) ==
    LET qr == MulDiv(Abs(m.v), LN2, Scale)
    IN  CASE m.kind = "nan" -> NaN
          [] m.kind = "inf" -> Infinity(IF n < 0 THEN -(m.v) ELSE m.v)
          [] n = 0 -> IF m.v = 0 THEN NaN ELSE Infinity(Sign(m.v))
          [] OTHER -> MathCeil(Sign(m.v) * Sign(n), qr[1] \div Abs(n),
                               (qr[1] % Abs(n)) + qr[2])

\* i < x for an integer i and a JavaScript number x
Lt(i, x) ==
    CASE x.kind = "nan" -> FALSE
      [] x.kind = "inf" -> x.v > 0
      [] OTHER -> i < x.v

(***************************************************************************)
(* The state: filter instances and the calls made on them                  *)
(***************************************************************************)
VARIABLES
    obj,      \* obj[f]: the BloomFilter object of instance f
    calls,    \* calls[f]: the items passed to add on f so far, in order
    yes,      \* yes[f]: the items for which a check on f has returned true
    last,     \* the last call: its operation, instance, arguments and result;
              \* again: an earlier check of item on f had returned true
    procs,    \* procs[t]: the call that thread t is running on instance 1, when
              \* add and check are run by threads that interleave
    mgr       \* the order managers of the command pattern article: the orders
              \* of the direct one, those of the command-based one, and the
              \* last call made with its id

vars == <<obj, calls, yes, last, procs, mgr>>

(***************************************************************************)
(* class BloomFilter                                                       *)
(***************************************************************************)
NoObject ==
    [state |-> "none", error |-> "", expectedItems |-> 0, falsePositiveRate |-> 0,
     size |-> Fin(0), hashCount |-> Fin(0), bitArray |-> <<>>]

\* new Array(size) accepts an integer length in 0 .. 2^32 - 1 and throws a
\* RangeError for any other number
ValidArrayLength(size) == size.kind = "fin" /\ size.v >= 0

\* a variant of NewArray: new Array(size + 1).fill(1)
NewArrayOnes(size) == [i \in 0..size.v |-> 1]

\* new Array(size).fill(0), indexed from 0
NewArray(size) == [i \in 0..(size.v - 1) |-> 0]

\* a variant of BloomFilter for arguments in range: hashCount taken from the
\* quotient m / n before m is rounded, which is ceil(-ln p / ln 2)
BloomFilterUnrounded(expectedItems, falsePositiveRate) ==
    [state |-> "constructed", error |-> "",
     expectedItems |-> expectedItems,
     falsePositiveRate |-> falsePositiveRate,
     size |-> getSize(expectedItems, falsePositiveRate),
     hashCount |-> MathCeil(1, Abs(MathLog(falsePositiveRate).v) \div LN2,
                            Abs(MathLog(falsePositiveRate).v) % LN2),
     bitArray |-> NewArray(getSize(expectedItems, falsePositiveRate))]

\* new BloomFilter(expectedItems, falsePositiveRate)
BloomFilter(expectedItems, falsePositiveRate) ==
    LET size == getSize(expectedItems, falsePositiveRate)
        hashCount == getHashCount(size, expectedItems)
    IN  IF ValidArrayLength(size)
        THEN [state |-> "constructed", error |-> "",
              expectedItems |-> expectedItems,
              falsePositiveRate |-> falsePositiveRate,
              size |-> size, hashCount |-> hashCount,
              bitArray |-> NewArray(size)]
        ELSE [NoObject EXCEPT !.state = "thrown", !.error = "RangeError"]

\* murmurhash3_32_gc(item, i) of a string of the model
HashOf(item, i) == Hashes[item][i]

\* a variant of addHash: the seed drawn from a counter shared by all instances
addHashCounted(this, item, i) ==
    ModW(HashOf(item, (i + Len(calls[1]) + Len(calls[2])) % (MaxSeed + 1)),
         this.size.v)

\* a variant of addHash: the low 16 bits of the hash, not reduced modulo size
addHashUnreduced(this, item, i) == HashOf(item, i)[2]

\* a variant of addHash: the hash read as a signed 32-bit integer, as it is
\* without the >>> 0 of the return statement; the remainder of a negative
\* number is negative or zero
addHashSigned(this, item, i) ==
    IF HashOf(item, i)[1] >= Half \div 2
    THEN -((this.size.v + ((ModW(<<Half - 1, Half - 1>>, this.size.v) + 1)
                               % this.size.v)
               - ModW(HashOf(item, i), this.size.v)) % this.size.v)
    ELSE ModW(HashOf(item, i), this.size.v)

\* add's  const hash = this.murmurhash3_32_gc(item, i) % this.size
addHash(this, item, i) == ModW(HashOf(item, i), this.size.v)

\* a variant of checkHash: the remainder taken modulo hashCount
checkHashModK(this, item, i) == ModW(HashOf(item, i), this.hashCount.v)

\* check's  const hash = this.murmurhash3_32_gc(item, i) % this.size
checkHash(this, item, i) == ModW(HashOf(item, i), this.size.v)

\* a variant of SetBit: this.bitArray[hash] == 1, a comparison that stores nothing
SetBitCompare(bitArray, hash) == bitArray

\* a variant of SetBit: this.bitArray[hash] ^= 1
SetBitToggle(bitArray, hash) == [bitArray EXCEPT ![hash] = 1 - @]

\* a variant of SetBit: the store also sets the cell that follows
SetBitSpill(bitArray, hash) ==
    [j \in DOMAIN bitArray |-> IF j = hash \/ j = hash + 1 THEN 1 ELSE bitArray[j]]

\* a variant of SetBit: the array keeps only the last cell stored
SetBitOnly(bitArray, hash) ==
    [j \in DOMAIN bitArray |-> IF j = hash THEN 1 ELSE 0]

\* this.bitArray[hash] = 1: a store at an index the array does not hold adds
\* that index to the array
SetBit(bitArray, hash) ==
    IF hash \in DOMAIN bitArray
    THEN [bitArray EXCEPT ![hash] = 1]
    ELSE [j \in DOMAIN bitArray \cup {hash} |-> IF j = hash THEN 1 ELSE bitArray[j]]

\* a variant of IsZero: this.bitArray[hash] === 1
IsOne(bitArray, hash) == hash \in DOMAIN bitArray /\ bitArray[hash] = 1

\* this.bitArray[hash] === 0
IsZero(bitArray, hash) == hash \in DOMAIN bitArray /\ bitArray[hash] = 0

\* a variant of addLoop: the loop ends at the first cell that is 1 already
RECURSIVE addLoopUntilSet(_, _, _, _)
addLoopUntilSet(this, item, i, acc) ==
    IF Lt(i, this.hashCount) /\ IsZero(acc.bitArray, addHash(this, item, i))
    THEN addLoopUntilSet(this, item, i + 1,
                         [bitArray |-> SetBit(acc.bitArray, addHash(this, item, i)),
                          touched |-> Append(acc.touched, addHash(this, item, i))])
    ELSE [ret |-> "undefined", bitArray |-> acc.bitArray, touched |-> acc.touched]

\* add's for loop from i on; acc holds the bit array and the cells written
RECURSIVE addLoop(_, _, _, _)
addLoop(this, item, i, acc) ==
    IF Lt(i, this.hashCount)
    THEN addLoop(this, item, i + 1,
                 [bitArray |-> SetBit(acc.bitArray, addHash(this, item, i)),
                  touched |-> Append(acc.touched, addHash(this, item, i))])
    ELSE [ret |-> "undefined", bitArray |-> acc.bitArray, touched |-> acc.touched]

\* a variant of add: the empty string is refused with an error
addNonEmpty(this, item) ==
    IF item = <<>>
    THEN [ret |-> "TypeError", bitArray |-> this.bitArray, touched |-> <<>>]
    ELSE addLoop(this, item, 0, [bitArray |-> this.bitArray, touched |-> <<>>])

\* add(item): the bit array it leaves and the cells it wrote, in order
add(this, item) ==
    addLoop(this, item, 0, [bitArray |-> this.bitArray, touched |-> <<>>])

\* a variant of checkLoop: if (this.bitArray[hash] = 0), an assignment whose
\* value 0 is falsy, so that the loop never returns false
RECURSIVE checkLoopAssign(_, _, _, _)
checkLoopAssign(this, item, i, acc) ==
    IF Lt(i, this.hashCount)
    THEN checkLoopAssign(this, item, i + 1,
                         [bitArray |-> [acc.bitArray EXCEPT
                                          ![checkHash(this, item, i)] = 0],
                          touched |-> Append(acc.touched, checkHash(this, item, i))])
    ELSE [ret |-> "true", bitArray |-> acc.bitArray, touched |-> acc.touched]

\* check's for loop from i on; acc holds the bit array and the cells read
RECURSIVE checkLoop(_, _, _, _)
checkLoop(this, item, i, acc) ==
    IF Lt(i, this.hashCount)
    THEN IF IsZero(acc.bitArray, checkHash(this, item, i))
         THEN [ret |-> "false", bitArray |-> acc.bitArray,
               touched |-> Append(acc.touched, checkHash(this, item, i))]
         ELSE checkLoop(this, item, i + 1,
                        [bitArray |-> acc.bitArray,
                         touched |-> Append(acc.touched, checkHash(this, item, i))])
    ELSE [ret |-> "true", bitArray |-> acc.bitArray, touched |-> acc.touched]

\* check(item): its result, the bit array it leaves and the cells it read
check(this, item) ==
    checkLoop(this, item, 0, [bitArray |-> this.bitArray, touched |-> <<>>])

(***************************************************************************)
(* The state machine: filter instances and the calls made on them          *)
(***************************************************************************)
Instances == {1, 2}

\* the threads of the interleaved runs
Threads == {1, 2, 3}

\* the constructor arguments and the items of the interleaved runs
ThreadArgs == {<<2, 50>>}

ThreadItems == {<<97>>, <<353, 98>>}

\* a thread that runs no call.  pc is "idle", "add" or "check" while a call
\* runs, "added" or "checked" once it has returned; i is the loop variable;
\* after: the add of item had returned when this check was called; alone: what
\* this check would return were it run to its end when called; quiet: no add
\* (no other add, for an add) has been running since this call began
Idle ==
    [pc |-> "idle", item |-> <<>>, i |-> 0, ret |-> "none", after |-> FALSE,
     alone |-> "none", quiet |-> FALSE]

NoCall ==
    [op |-> "none", f |-> 0, item |-> <<>>, n |-> 0, p |-> 0,
     ret |-> "undefined", touched |-> <<>>, again |-> FALSE]

Init ==
    /\ obj = [f \in Instances |-> NoObject]
    /\ calls = [f \in Instances |-> <<>>]
    /\ yes = [f \in Instances |-> {}]
    /\ last = NoCall
    /\ procs = [t \in Threads |-> Idle]
    /\ mgr = [direct |-> <<>>, command |-> <<>>, op |-> "none", id |-> ""]

\* const f = new BloomFilter(n, p)
New(f, n, p) ==
    /\ obj[f].state = "none"
    /\ obj' = [obj EXCEPT ![f] = BloomFilter(n, p)]
    /\ last' = [NoCall EXCEPT !.op = "new", !.f = f, !.n = n, !.p = p]
    /\ UNCHANGED <<calls, yes, procs, mgr>>

\* f.add(item)
Add(f, item) ==
    /\ obj[f].state = "constructed"
    /\ Len(calls[f]) < MaxAdds
    /\ obj' = [obj EXCEPT ![f].bitArray = add(obj[f], item).bitArray]
    /\ last' = [NoCall EXCEPT !.op = "add", !.f = f, !.item = item,
                              !.ret = add(obj[f], item).ret,
                              !.touched = add(obj[f], item).touched]
    /\ calls' = [calls EXCEPT ![f] = Append(@, item)]
    /\ UNCHANGED <<yes, procs, mgr>>

\* f.check(item)
Check(f, item) ==
    /\ obj[f].state = "constructed"
    /\ obj' = [obj EXCEPT ![f].bitArray = check(obj[f], item).bitArray]
    /\ last' = [NoCall EXCEPT !.op = "check", !.f = f, !.item = item,
                              !.ret = check(obj[f], item).ret,
                              !.touched = check(obj[f], item).touched,
                              !.again = (item \in yes[f])]
    /\ yes' = [yes EXCEPT ![f] =
                 IF check(obj[f], item).ret = "true" THEN @ \cup {item} ELSE @]
    /\ UNCHANGED <<calls, procs, mgr>>

\* one filter, every call sequence
Next ==
    \/ \E n \in ExpectedItemsValues, p \in RateValues : New(1, n, p)
    \/ \E item \in Items : Add(1, item)
    \/ \E item \in Items : Check(1, item)

Spec == Init /\ [][Next]_vars

\* two filters, each constructed and called on its own
NextPair ==
    \/ \E f \in Instances, n \in PairExpectedItems, p \in PairRates : New(f, n, p)
    \/ \E f \in Instances, item \in PairItems : Add(f, item)
    \/ \E f \in Instances, item \in PairItems : Check(f, item)

SpecPair == Init /\ [][NextPair]_vars

\* the example usage: one filter, the items of the example added and checked
\* in every order
NextExample ==
    \/ \E a \in ExampleArgs : New(1, a[1], a[2])
    \/ \E item \in ExampleAdded : Add(1, item)
    \/ \E item \in ExampleChecked : Check(1, item)

SpecExample == Init /\ [][NextExample]_vars

\* one filter, strings with equal and with different low bytes added and
\* checked in every order
NextCollide ==
    \/ \E a \in CollideArgs : New(1, a[1], a[2])
    \/ \E item \in CollideItems : Add(1, item)
    \/ \E item \in CollideItems : Check(1, item)

SpecCollide == Init /\ [][NextCollide]_vars

(***************************************************************************)
(* class OrderManager, in its direct and its command-based version         *)
(***************************************************************************)
\* the ids of the orders placed
OrderIds == {"1234", "5678"}

\* the value undefined, which cancel may be given as id
Undefined == "undefined"

\* the orders a manager holds at most
MaxOrders == 3

\* order.id of an element of orders: the elements are the pushed ids, strings,
\* which have no property id
idOf(order) == Undefined

\* orders.filter(order => order.id !== id)
filter(orders, id) == SelectSeq(orders, LAMBDA order : idOf(order) # id)

\* manager.placeOrder(order, id)
placeOrder(id) ==
    /\ Len(mgr.direct) < MaxOrders
    /\ mgr' = [mgr EXCEPT !.direct = Append(@, id), !.op = "placeOrder", !.id = id]
    /\ UNCHANGED <<obj, calls, yes, last, procs>>

\* manager.trackOrder(id)
trackOrder(id) ==
    /\ mgr' = [mgr EXCEPT !.op = "trackOrder", !.id = id]
    /\ UNCHANGED <<obj, calls, yes, last, procs>>

\* manager.cancelOrder(id): this.orders = this.orders.filter(...)
cancelOrder(id) ==
    /\ mgr' = [mgr EXCEPT !.direct = filter(@, id), !.op = "cancelOrder", !.id = id]
    /\ UNCHANGED <<obj, calls, yes, last, procs>>

\* manager.execute(new PlaceOrderCommand(order, id)): orders.push(id) on the
\* array of the manager
PlaceOrderCommand(id) ==
    /\ Len(mgr.command) < MaxOrders
    /\ mgr' = [mgr EXCEPT !.command = Append(@, id),
                           !.op = "PlaceOrderCommand", !.id = id]
    /\ UNCHANGED <<obj, calls, yes, last, procs>>

\* manager.execute(new TrackOrderCommand(id))
TrackOrderCommand(id) ==
    /\ mgr' = [mgr EXCEPT !.op = "TrackOrderCommand", !.id = id]
    /\ UNCHANGED <<obj, calls, yes, last, procs>>

\* manager.execute(new CancelOrderCommand(id)): orders = orders.filter(...)
\* assigns the parameter orders of the command; the array of the manager,
\* which filter does not change, stays as it is
CancelOrderCommand(id) ==
    /\ filter(mgr.command, id) \in Seq(OrderIds)
    /\ mgr' = [mgr EXCEPT !.op = "CancelOrderCommand", !.id = id]
    /\ UNCHANGED <<obj, calls, yes, last, procs>>

\* the two managers, every sequence of calls
NextOrders ==
    \/ \E id \in OrderIds : placeOrder(id)
    \/ \E id \in OrderIds : trackOrder(id)
    \/ \E id \in OrderIds \cup {Undefined} : cancelOrder(id)
    \/ \E id \in OrderIds : PlaceOrderCommand(id)
    \/ \E id \in OrderIds : TrackOrderCommand(id)
    \/ \E id \in OrderIds \cup {Undefined} : CancelOrderCommand(id)

SpecOrders == Init /\ [][NextOrders]_vars

\* the items added to f so far: those of the add calls that have returned
Added(f) == {calls[f][j] : j \in 1..Len(calls[f])}

\* the threads that are running op on instance 1
Running(op) == {t \in Threads : procs[t].pc = op}

\* thread t calls add(item) on instance 1
BeginAdd(t, item) ==
    /\ obj[1].state = "constructed"
    /\ procs[t].pc \in {"idle", "added", "checked"}
    /\ Len(calls[1]) + Cardinality(Running("add")) < MaxAdds
    /\ procs' = [u \in Threads |->
                   IF u = t
                   THEN [Idle EXCEPT !.pc = "add", !.item = item,
                                     !.quiet = (Running("add") = {})]
                   ELSE IF procs[u].pc \in {"add", "check"}
                        THEN [procs[u] EXCEPT !.quiet = FALSE]
                        ELSE procs[u]]
    /\ UNCHANGED <<obj, calls, yes, last, mgr>>

\* the bit array that the calls add(items[1]), add(items[2]), ... leave when
\* run one after the other on this
RECURSIVE AddAll(_, _)
AddAll(this, items) ==
    IF items = <<>> THEN this.bitArray
    ELSE AddAll([this EXCEPT !.bitArray = add(this, Head(items)).bitArray],
                Tail(items))

\* the filter as the constructor left it
Fresh(this) == [this EXCEPT !.bitArray = NewArray(this.size)]

\* items in the opposite order
Reverse(items) == [j \in 1..Len(items) |-> items[Len(items) + 1 - j]]

\* bits after the writes of add(item) for the seeds 0 .. i-1
RECURSIVE WritePrefix(_, _, _, _)
WritePrefix(this, item, i, bits) ==
    IF i = 0 THEN bits
    ELSE SetBit(WritePrefix(this, item, i - 1, bits), addHash(this, item, i - 1))

\* a variant of AddStep: each write stores the whole array back from a copy
\* that holds the adds that had returned and the thread's own writes, as a
\* write to a packed word shared with other cells would
AddStepLossy(t) ==
    /\ procs[t].pc = "add"
    /\ IF Lt(procs[t].i, obj[1].hashCount)
       THEN /\ obj' = [obj EXCEPT ![1].bitArray =
                         WritePrefix(obj[1], procs[t].item, procs[t].i + 1,
                                     AddAll(Fresh(obj[1]), calls[1]))]
            /\ procs' = [procs EXCEPT ![t].i = @ + 1]
            /\ UNCHANGED calls
       ELSE /\ procs' = [procs EXCEPT ![t].pc = "added", ![t].ret = "undefined"]
            /\ calls' = [calls EXCEPT ![1] = Append(@, procs[t].item)]
            /\ UNCHANGED obj
    /\ UNCHANGED <<yes, last, mgr>>

\* a variant of AddStep: the whole call of add in one step, as under a lock
AddAtomic(t) ==
    /\ procs[t].pc = "add"
    /\ obj' = [obj EXCEPT ![1].bitArray = add(obj[1], procs[t].item).bitArray]
    /\ procs' = [procs EXCEPT ![t].pc = "added", ![t].ret = "undefined"]
    /\ calls' = [calls EXCEPT ![1] = Append(@, procs[t].item)]
    /\ UNCHANGED <<yes, last, mgr>>

\* one step of add in thread t: the loop test and, when it holds, one
\* iteration with its single write; else the return
AddStep(t) ==
    /\ procs[t].pc = "add"
    /\ IF Lt(procs[t].i, obj[1].hashCount)
       THEN /\ obj' = [obj EXCEPT ![1].bitArray =
                         SetBit(@, addHash(obj[1], procs[t].item, procs[t].i))]
            /\ procs' = [procs EXCEPT ![t].i = @ + 1]
            /\ UNCHANGED calls
       ELSE /\ procs' = [procs EXCEPT ![t].pc = "added", ![t].ret = "undefined"]
            /\ calls' = [calls EXCEPT ![1] = Append(@, procs[t].item)]
            /\ UNCHANGED obj
    /\ UNCHANGED <<yes, last, mgr>>

\* thread t calls check(item) on instance 1
BeginCheck(t, item) ==
    /\ obj[1].state = "constructed"
    /\ procs[t].pc \in {"idle", "added", "checked"}
    /\ procs' = [procs EXCEPT ![t] =
                   [Idle EXCEPT !.pc = "check", !.item = item,
                                !.after = (item \in Added(1)),
                                !.alone = check(obj[1], item).ret,
                                !.quiet = (Running("add") = {})]]
    /\ UNCHANGED <<obj, calls, yes, last, mgr>>

\* a variant of CheckStep: the loop variable i is one variable shared by the
\* running checks, as a loop variable declared without let would be
CheckStepShared(t) ==
    /\ procs[t].pc = "check"
    /\ procs' = [u \in Threads |->
                   IF Lt(procs[t].i, obj[1].hashCount)
                   THEN IF IsZero(obj[1].bitArray,
                                  checkHash(obj[1], procs[t].item, procs[t].i))
                        THEN IF u = t
                             THEN [procs[u] EXCEPT !.pc = "checked", !.ret = "false"]
                             ELSE procs[u]
                        ELSE IF procs[u].pc = "check"
                             THEN [procs[u] EXCEPT !.i = procs[t].i + 1]
                             ELSE procs[u]
                   ELSE IF u = t
                        THEN [procs[u] EXCEPT !.pc = "checked", !.ret = "true"]
                        ELSE procs[u]]
    /\ UNCHANGED <<obj, calls, yes, last, mgr>>

\* one step of check in thread t: the loop test and, when it holds, one
\* iteration with its single read; else return true
CheckStep(t) ==
    /\ procs[t].pc = "check"
    /\ procs' = [procs EXCEPT ![t] =
                   IF Lt(procs[t].i, obj[1].hashCount)
                   THEN IF IsZero(obj[1].bitArray,
                                  checkHash(obj[1], procs[t].item, procs[t].i))
                        THEN [@ EXCEPT !.pc = "checked", !.ret = "false"]
                        ELSE [@ EXCEPT !.i = @ + 1]
                   ELSE [@ EXCEPT !.pc = "checked", !.ret = "true"]]
    /\ UNCHANGED <<obj, calls, yes, last, mgr>>

\* one filter whose add and check calls are run by threads, interleaved at
\* the single writes and reads of bitArray
NextThreads ==
    \/ \E a \in ThreadArgs : New(1, a[1], a[2])
    \/ \E t \in Threads, item \in ThreadItems : BeginAdd(t, item)
    \/ \E t \in Threads : AddStep(t)
    \/ \E t \in Threads, item \in ThreadItems : BeginCheck(t, item)
    \/ \E t \in Threads : CheckStep(t)

SpecThreads == Init /\ [][NextThreads]_vars

(***************************************************************************)
(* What the claims speak of                                                *)
(***************************************************************************)
Constructed(f) == obj[f].state = "constructed"

\* the seeds 0 .. k-1 of a filter (none when hashCount is NaN)
SeedsOf(this) ==
    IF this.hashCount.kind = "fin" THEN 0..(this.hashCount.v - 1) ELSE {}

\* hash_i(item) mod m
PositionOf(this, item, i) == ModW(HashOf(item, i), this.size.v)

\* the cells of f that hold 1
Ones(f) == {j \in DOMAIN obj[f].bitArray : obj[f].bitArray[j] = 1}

\* a filter with at least two cells and two hash functions
Proper(f) == Constructed(f) /\ obj[f].size.v >= 2 /\ Lt(1, obj[f].hashCount)

(***************************************************************************)
(* C1 .. C10                                                               *)
(***************************************************************************)

\* C1: no false negatives.  Once add(x) has returned on a filter, check(x)
\* returns true: the last call, when it is a check of an added item, returned
\* true, and a check of any item added so far would return true now, whatever
\* was added or checked in between.
C1_NoFalseNegatives ==
    /\ (last.op = "check" /\ last.item \in Added(last.f)) => last.ret = "true"
    /\ \A f \in Instances : Constructed(f) =>
          \A x \in Added(f) : check(obj[f], x).ret = "true"

\* a check of the first of three added items, on a filter with several cells
\* and hash functions, after other items were added
C1_Witness ==
    /\ last.op = "check" /\ last.ret = "true" /\ Proper(last.f)
    /\ Len(calls[last.f]) = 3
    /\ calls[last.f][1] = last.item
    /\ calls[last.f][2] # last.item /\ calls[last.f][3] # last.item

\* C2: bit monotonicity.  No step takes a cell of bitArray from 1 to 0.
C2_BitsMonotonic ==
    [][\A f \in Instances : (Constructed(f) /\ obj'[f].state = "constructed") =>
          \A j \in DOMAIN obj[f].bitArray :
             obj[f].bitArray[j] = 1 =>
                (j \in DOMAIN obj'[f].bitArray /\ obj'[f].bitArray[j] = 1)]_vars

\* after the add of a second item, the cells of the first are still 1 beside
\* the cells the second add wrote
C2_Witness ==
    /\ last.op = "add" /\ Proper(last.f) /\ Len(calls[last.f]) = 2
    /\ \E j \in Ones(last.f) : \A q \in 1..Len(last.touched) : last.touched[q] # j
    /\ \E q \in 1..Len(last.touched) :
          \A i \in SeedsOf(obj[last.f]) :
             PositionOf(obj[last.f], calls[last.f][1], i) # last.touched[q]

\* C3: stability of positive answers.  A check of x that follows a check of x
\* that returned true returns true; every item that has had a positive check
\* would be answered true now.
C3_PositiveStable ==
    /\ (last.op = "check" /\ last.again) => last.ret = "true"
    /\ \A f \in Instances : Constructed(f) =>
          \A x \in yes[f] : check(obj[f], x).ret = "true"

\* a repeated positive check of an item that was never added, with adds made
\* on the filter
C3_Witness ==
    /\ last.op = "check" /\ last.again /\ last.ret = "true" /\ Proper(last.f)
    /\ last.item \notin Added(last.f)
    /\ Len(calls[last.f]) >= 2

\* C4: a freshly constructed filter, with no add made, answers false to every
\* check.
C4_EmptyFilterRejectsAll ==
    /\ (last.op = "check" /\ calls[last.f] = <<>>) => last.ret = "false"
    /\ \A f \in Instances : (Constructed(f) /\ calls[f] = <<>>) =>
          \A x \in Items : check(obj[f], x).ret = "false"

\* C5: check returns false exactly when one of the k cells of the item is 0
\* and true exactly when all k are 1.
C5_CheckIsAllBits ==
    last.op = "check" =>
       /\ last.ret \in {"true", "false"}
       /\ (last.ret = "true") <=>
             \A i \in SeedsOf(obj[last.f]) :
                obj[last.f].bitArray[PositionOf(obj[last.f], last.item, i)] = 1
       /\ (last.ret = "false") <=>
             \E i \in SeedsOf(obj[last.f]) :
                obj[last.f].bitArray[PositionOf(obj[last.f], last.item, i)] = 0

\* a check answered false although some, not all, of the item's cells are 1
C5_WitnessPartial ==
    /\ last.op = "check" /\ last.ret = "false" /\ Proper(last.f)
    /\ \E i \in SeedsOf(obj[last.f]) :
          obj[last.f].bitArray[PositionOf(obj[last.f], last.item, i)] = 1

\* C6: after add(item), the cell of every seed 0 .. k-1 is 1, add wrote the
\* cells hash_i(item) mod m for i = 0 .. k-1 in order, and check(item) reads
\* those same cells.
C6_AddSetsCheckedCells ==
    last.op = "add" =>
       /\ \A i \in SeedsOf(obj[last.f]) :
             obj[last.f].bitArray[PositionOf(obj[last.f], last.item, i)] = 1
       /\ DOMAIN last.touched = {i + 1 : i \in SeedsOf(obj[last.f])}
       /\ \A i \in SeedsOf(obj[last.f]) :
             last.touched[i + 1] = PositionOf(obj[last.f], last.item, i)
       /\ check(obj[last.f], last.item).touched = last.touched

\* an add on a filter with several cells and hash functions that wrote at
\* least two different cells
C6_Witness ==
    /\ last.op = "add" /\ Proper(last.f)
    /\ \E q, r \in 1..Len(last.touched) : last.touched[q] # last.touched[r]

\* C7: check is query-only.  A check step changes no field of any filter.
C7_CheckReadOnly == [][last'.op = "check" => obj' = obj]_vars

\* checks answered true and false on a filter that holds added items
C7_Witness ==
    /\ last.op = "check" /\ Proper(last.f) /\ Ones(last.f) # {}
    /\ last.ret = "false"
    /\ yes[last.f] # {}

\* C8: idempotence of add.  The state that add(x) leaves is left unchanged by
\* another add(x).
C8_AddIdempotent ==
    last.op = "add" =>
       add(obj[last.f], last.item).bitArray = obj[last.f].bitArray

\* the same item added twice in a row, after another item
C8_Witness ==
    /\ last.op = "add" /\ Proper(last.f) /\ Len(calls[last.f]) = 3
    /\ calls[last.f][2] = last.item /\ calls[last.f][3] = last.item
    /\ calls[last.f][1] # last.item

\* C9: determinism.  Two filters constructed with the same arguments that have
\* been given the same sequence of add calls hold the same bits and answer every
\* check alike, whenever and in whatever interleaving the calls were made.
C9_Deterministic ==
    (/\ Constructed(1) /\ Constructed(2)
     /\ obj[1].expectedItems = obj[2].expectedItems
     /\ obj[1].falsePositiveRate = obj[2].falsePositiveRate
     /\ calls[1] = calls[2])
    => /\ obj[1] = obj[2]
       /\ \A x \in Items : check(obj[1], x) = check(obj[2], x)

\* two filters with the same arguments after the same two adds
C9_Witness ==
    /\ Proper(1) /\ Proper(2)
    /\ obj[1].expectedItems = obj[2].expectedItems
    /\ obj[1].falsePositiveRate = obj[2].falsePositiveRate
    /\ calls[1] = calls[2] /\ Len(calls[1]) = 2 /\ calls[1][1] # calls[1][2]
    /\ yes[1] # yes[2]

\* C10: construction with expectedItems <= 0 fails (with InvalidArgument) and
\* yields no filter object.  The rate is taken inside (0, 1), so that
\* expectedItems is the only argument out of range, and the failure is stated
\* whatever the error is called.
C10_NonPositiveExpectedItemsRejected ==
    (last.op = "new" /\ last.n <= 0 /\ 0 < last.p /\ last.p < 100) =>
       obj[last.f].state = "thrown"

(***************************************************************************)
(* C11 .. C20                                                              *)
(***************************************************************************)

\* C11: construction with falsePositiveRate <= 0 or >= 1 fails (with
\* InvalidArgument) and yields no filter object.  expectedItems is taken
\* positive, so that the rate is the only argument out of range, and the
\* failure is stated whatever the error is called.
C11_RateOutsideUnitIntervalRejected ==
    (last.op = "new" /\ last.n >= 1 /\ (last.p <= 0 \/ last.p >= 100)) =>
       obj[last.f].state = "thrown"

\* C12: every filter that construction returns has size m >= 1 and hash count
\* k >= 1.
C12_SizeAndHashCountPositive ==
    \A f \in Instances : Constructed(f) =>
       (obj[f].size.v >= 1 /\ Lt(0, obj[f].hashCount))

\* C14: immediately after a construction that returns, bitArray has exactly
\* the cells 0 .. m-1 and every cell is 0.
C14_FreshArrayAllZero ==
    (last.op = "new" /\ Constructed(last.f)) =>
       /\ DOMAIN obj[last.f].bitArray = 0..(obj[last.f].size.v - 1)
       /\ \A j \in DOMAIN obj[last.f].bitArray : obj[last.f].bitArray[j] = 0

\* a construction that returned a filter of several cells
C14_Witness ==
    last.op = "new" /\ Proper(last.f) /\ obj[last.f].size.v >= 10

\* C13: construction derives m = ceil(-(n ln p) / (ln 2)^2) and k =
\* ceil((m / n) ln 2) from the rounded m.  For n = 1000, p = 0.01 that is
\* m = 9586, k = 7; for n = 1, p = 0.13 it is m = ceil(4.25) = 5 and
\* k = ceil(5 * 0.693) = 4, where the unrounded quotient would give
\* ceil(4.25 * 0.693) = 3.
C13_SizingOfTheExample ==
    (last.op = "new" /\ Constructed(last.f)) =>
       /\ (last.n = 1000 /\ last.p = 1) =>
             (obj[last.f].size = Fin(9586) /\ obj[last.f].hashCount = Fin(7))
       /\ (last.n = 1 /\ last.p = 13) =>
             (obj[last.f].size = Fin(5) /\ obj[last.f].hashCount = Fin(4))

\* new BloomFilter(1000, 0.01) has returned
C13_Witness ==
    /\ last.op = "new" /\ last.n = 1000 /\ last.p = 1 /\ Constructed(last.f)
    /\ obj[last.f].size.v > obj[last.f].hashCount.v

\* C19: the example usage.  On the filter of (1000, 0.01), after add("apple"),
\* add("banana"), add("orange"), check returns true for "apple" and "banana"
\* and false for "grape" and "kiwi", whatever checks were made before.
C19_ExampleUsage ==
    (/\ Constructed(1)
     /\ obj[1].expectedItems = 1000 /\ obj[1].falsePositiveRate = 1
     /\ calls[1] = <<apple, banana, orange>>) =>
       /\ check(obj[1], apple).ret = "true"
       /\ check(obj[1], banana).ret = "true"
       /\ check(obj[1], grape).ret = "false"
       /\ check(obj[1], kiwi).ret = "false"
       /\ last.op = "check" =>
             last.ret = (IF last.item \in {apple, banana} THEN "true" ELSE "false")

\* the example run to its last line: after the three adds, check("kiwi") has
\* returned false and the checks of "apple" and "banana" have returned true
C19_Witness ==
    /\ Constructed(1)
    /\ obj[1].expectedItems = 1000 /\ obj[1].falsePositiveRate = 1
    /\ calls[1] = <<apple, banana, orange>>
    /\ last.op = "check" /\ last.item = kiwi /\ last.ret = "false"
    /\ yes[1] = {apple, banana}

\* C15: fixed capacity.  No add or check call changes size, hashCount,
\* expectedItems or falsePositiveRate, and after the call bitArray still has
\* exactly the cells 0 .. m-1, each holding 0 or 1.
C15_FixedCapacity ==
    [][\A f \in Instances : (last'.op \in {"add", "check"} /\ last'.f = f) =>
          /\ obj'[f].size = obj[f].size
          /\ obj'[f].hashCount = obj[f].hashCount
          /\ obj'[f].expectedItems = obj[f].expectedItems
          /\ obj'[f].falsePositiveRate = obj[f].falsePositiveRate
          /\ DOMAIN obj'[f].bitArray = 0..(obj'[f].size.v - 1)
          /\ \A j \in DOMAIN obj'[f].bitArray : obj'[f].bitArray[j] \in {0, 1}]_vars

\* the third add on a filter of several cells, some 1 and some still 0
C15_Witness ==
    /\ last.op = "add" /\ Proper(last.f) /\ Len(calls[last.f]) = 3
    /\ Ones(last.f) # {}
    /\ Ones(last.f) # DOMAIN obj[last.f].bitArray

\* C16: add and check are total.  On a constructed filter every add returns
\* (undefined) and every check returns true or false, for every string, the
\* empty string included; no call leaves the filter in an error state.
C16_AddAndCheckTotal ==
    /\ last.op = "add" => (Constructed(last.f) /\ last.ret = "undefined")
    /\ last.op = "check" => (Constructed(last.f) /\ last.ret \in {"true", "false"})
    /\ \A f \in Instances : Constructed(f) =>
          \A x \in Items :
             /\ add(obj[f], x).ret = "undefined"
             /\ check(obj[f], x).ret \in {"true", "false"}

\* the empty string added to a filter that holds another item
C16_Witness ==
    /\ last.op = "add" /\ last.item = <<>> /\ last.ret = "undefined"
    /\ Proper(last.f) /\ Len(calls[last.f]) >= 2
    /\ Len(last.touched) >= 2

C18_PositionsInRange ==
    /\ \A key \in DOMAIN Hashes : \A seed \in 0..MaxSeed :
          /\ Hashes[key][seed][1] \in 0..(Half - 1)
          /\ Hashes[key][seed][2] \in 0..(Half - 1)
    /\ last.op \in {"add", "check"} =>
          \A q \in DOMAIN last.touched :
             last.touched[q] \in 0..(obj[last.f].size.v - 1)

\* an add that wrote the cell of a hash value of 2^31 or more, which a signed
\* reading would make negative
C18_Witness ==
    /\ last.op = "add" /\ Proper(last.f) /\ obj[last.f].size.v >= 5
    /\ \E i \in SeedsOf(obj[last.f]) : HashOf(last.item, i)[1] >= Half \div 2

\* C20: happens-before visibility.  With add and check run by threads whose
\* steps are the single writes and reads, a check(x) called after an add(x)
\* has returned reads no 0 and returns true, whatever other adds are running.
C20_CompletedAddIsVisible ==
    \A t \in Threads :
       (procs[t].after /\ procs[t].pc \in {"check", "checked"}) =>
          /\ procs[t].ret # "false"
          /\ \A i \in SeedsOf(obj[1]) :
                obj[1].bitArray[PositionOf(obj[1], procs[t].item, i)] = 1

\* a check of an added item has returned true while the add of another item
\* is between two of its writes
C20_Witness ==
    \E t, u \in Threads :
       /\ procs[t].pc = "checked" /\ procs[t].after /\ procs[t].ret = "true"
       /\ procs[u].pc = "add" /\ procs[u].item # procs[t].item
       /\ procs[u].i >= 1 /\ Lt(procs[u].i, obj[1].hashCount)
       /\ \E i \in SeedsOf(obj[1]) :
             obj[1].bitArray[PositionOf(obj[1], procs[u].item, i)] = 0

(***************************************************************************)
(* C21 .. C30                                                              *)
(***************************************************************************)

\* C21: add is not atomic across its k writes.  A step of a running add
\* writes one cell and no more, and the add returns only by a later step that
\* writes nothing, so that the states between two writes of an add are states
\* in which the other threads run; a check(x) that runs between the writes of
\* a running add(x) can read a cell not yet written and return false.
C21_AddIsNotAtomic ==
    [][\A t \in Threads : (procs[t].pc = "add" /\ procs'[t] # procs[t]) =>
          /\ Cardinality({j \in DOMAIN obj[1].bitArray :
                            obj'[1].bitArray[j] # obj[1].bitArray[j]}) <= 1
          /\ procs'[t].pc = "added" => obj' = obj]_vars

\* add(x) is between two of its writes, no add has returned, and a check(x)
\* has read a cell that add(x) wrote, then a cell it has not written yet, and
\* has returned false
C21_Witness ==
    \E t, u \in Threads :
       /\ calls[1] = <<>> /\ Running("add") = {u}
       /\ procs[u].i >= 1 /\ Lt(procs[u].i, obj[1].hashCount)
       /\ procs[t].pc = "checked" /\ procs[t].item = procs[u].item
       /\ procs[t].ret = "false" /\ procs[t].i >= 1

\* C22: concurrent checks need no synchronization among themselves.  A check
\* during which no add was running returns what it would have returned run
\* alone, however its reads interleave with those of other checks, and no
\* step of a check changes the filter.
C22_ChecksNeedNoLock ==
    [][/\ \A t \in Threads :
             (procs'[t].pc = "checked" /\ procs'[t].quiet) =>
                procs'[t].ret = procs'[t].alone
       /\ (\E t \in Threads :
               /\ procs[t].pc = "check" /\ procs'[t] # procs[t]
               /\ procs'[t].pc \in {"check", "checked"}) => obj' = obj]_vars

\* two checks both past their first read on a filter that holds an item, no
\* add running since either began, while a third check has returned false
C22_Witness ==
    \E t, u, w \in Threads :
       /\ t # u /\ Ones(1) # {} /\ Proper(1)
       /\ procs[t].pc = "check" /\ procs[t].quiet /\ procs[t].i >= 1
       /\ procs[u].pc = "check" /\ procs[u].quiet /\ procs[u].i >= 1
       /\ procs[w].pc = "checked" /\ procs[w].quiet
       /\ procs[w].ret = "false" /\ procs[w].i >= 1

\* C28: interleaved adds lose nothing.  With the adds interleaved at their
\* single writes, the cells at 1 are at every moment those of the adds that
\* have returned and of the writes made so far by the running adds; when no
\* add is running, the bit array is the one that the same add calls leave
\* when run one after the other, in the order of their returns or in the
\* opposite order.
C28_InterleavedAddsLoseNothing ==
    Constructed(1) =>
       /\ Ones(1) =
             UNION {{PositionOf(obj[1], x, i) : i \in SeedsOf(obj[1])} :
                      x \in Added(1)}
             \cup UNION {{PositionOf(obj[1], procs[t].item, i) :
                            i \in 0..(procs[t].i - 1)} : t \in Running("add")}
       /\ Running("add") = {} =>
             /\ obj[1].bitArray = AddAll(Fresh(obj[1]), calls[1])
             /\ obj[1].bitArray = AddAll(Fresh(obj[1]), Reverse(calls[1]))

\* two adds of different items have returned, each having run while the
\* other was running, and no add is running
C28_Witness ==
    \E t, u \in Threads :
       /\ Running("add") = {} /\ Len(calls[1]) = 2 /\ Proper(1)
       /\ procs[t].pc = "added" /\ ~procs[t].quiet
       /\ procs[u].pc = "added" /\ ~procs[u].quiet
       /\ procs[t].item # procs[u].item
       /\ Ones(1) # DOMAIN obj[1].bitArray

\* C23: in every state the cells at 1 are exactly the cells of the k positions
\* of the items added so far.  In the walk-through of the article, writing the
\* positions 3, 5, 7 of x and then 2, 4 of y into 8 cells at 0 gives
\* [0, 0, 1, 1, 1, 1, 0, 1].
C23_OnesAreAddedPositions ==
    /\ \A f \in Instances : Constructed(f) =>
          Ones(f) = UNION {{PositionOf(obj[f], x, i) : i \in SeedsOf(obj[f])} :
                             x \in Added(f)}
    /\ SetBit(SetBit(SetBit(SetBit(SetBit(NewArray(Fin(8)), 3), 5), 7), 2), 4)
          = [j \in 0..7 |-> IF j \in {2, 3, 4, 5, 7} THEN 1 ELSE 0]

\* two different items added to a filter in which some cell is still 0 and
\* some cell belongs to both items
C23_Witness ==
    \E f \in Instances :
       /\ Proper(f) /\ Len(calls[f]) = 2 /\ calls[f][1] # calls[f][2]
       /\ Ones(f) # DOMAIN obj[f].bitArray
       /\ \E i, j \in SeedsOf(obj[f]) :
             PositionOf(obj[f], calls[f][1], i) = PositionOf(obj[f], calls[f][2], j)

C25_CancelRemovesOrder ==
    /\ mgr.op = "cancelOrder" =>
          \A j \in 1..Len(mgr.direct) : mgr.direct[j] # mgr.id
    /\ mgr.op = "CancelOrderCommand" =>
          \A j \in 1..Len(mgr.command) : mgr.command[j] # mgr.id

\* C26: frame of add.  add(item) changes no cell other than the cells
\* hash_i(item) mod m, i in 0 .. k-1: every other cell of the filter keeps
\* its value, the array keeps its cells, and the other filter is untouched.
C26_AddFrame ==
    [][last'.op = "add" =>
          /\ DOMAIN obj'[last'.f].bitArray = DOMAIN obj[last'.f].bitArray
          /\ \A j \in DOMAIN obj[last'.f].bitArray :
                (\A i \in SeedsOf(obj[last'.f]) :
                    PositionOf(obj[last'.f], last'.item, i) # j) =>
                   obj'[last'.f].bitArray[j] = obj[last'.f].bitArray[j]
          /\ \A g \in Instances \ {last'.f} : obj'[g] = obj[g]]_vars

\* an add after which a cell outside the item's positions is still 1 and
\* another is still 0
C26_Witness ==
    /\ last.op = "add" /\ Proper(last.f) /\ Len(calls[last.f]) >= 2
    /\ \E j, h \in DOMAIN obj[last.f].bitArray :
          /\ obj[last.f].bitArray[j] = 1 /\ obj[last.f].bitArray[h] = 0
          /\ \A i \in SeedsOf(obj[last.f]) :
                /\ PositionOf(obj[last.f], last.item, i) # j
                /\ PositionOf(obj[last.f], last.item, i) # h

\* C27: commutativity of add.  From every reachable state, add(x); add(y) and
\* add(y); add(x) leave the same bits; two filters of the same arguments to
\* which the same set of items was added, in whatever order and however
\* often, hold the same bits and answer every check alike.
C27_AddCommutes ==
    /\ \A f \in Instances : Constructed(f) =>
          \A x, y \in PairItems :
             AddAll(obj[f], <<x, y>>) = AddAll(obj[f], <<y, x>>)
    /\ (/\ Constructed(1) /\ Constructed(2)
        /\ obj[1].expectedItems = obj[2].expectedItems
        /\ obj[1].falsePositiveRate = obj[2].falsePositiveRate
        /\ Added(1) = Added(2)) =>
          /\ obj[1].bitArray = obj[2].bitArray
          /\ \A x \in PairItems : check(obj[1], x).ret = check(obj[2], x).ret

\* two filters of the same arguments: x then y added to one, y then x and x
\* again to the other
C27_Witness ==
    /\ Proper(1) /\ Proper(2)
    /\ obj[1].expectedItems = obj[2].expectedItems
    /\ obj[1].falsePositiveRate = obj[2].falsePositiveRate
    /\ Len(calls[1]) = 2 /\ Len(calls[2]) = 3
    /\ calls[1][1] # calls[1][2]
    /\ calls[2] = <<calls[1][2], calls[1][1], calls[1][1]>>
    /\ Ones(1) # DOMAIN obj[1].bitArray

\* C30: in every state the number of cells at 1 is at most k times the number
\* of distinct items added so far, and at most m; each add call turns at most
\* k cells from 0 to 1.
C30_OnesBounded ==
    [][\A f \in Instances : obj'[f].state = "constructed" =>
          /\ Cardinality({j \in DOMAIN obj'[f].bitArray : obj'[f].bitArray[j] = 1})
                <= Cardinality(SeedsOf(obj'[f]))
                     * Cardinality({calls'[f][q] : q \in 1..Len(calls'[f])})
          /\ Cardinality({j \in DOMAIN obj'[f].bitArray : obj'[f].bitArray[j] = 1})
                <= obj'[f].size.v
          /\ (last'.op = "add" /\ last'.f = f) =>
                Cardinality({j \in DOMAIN obj'[f].bitArray :
                               obj'[f].bitArray[j] = 1 /\ j \in DOMAIN obj[f].bitArray
                               /\ obj[f].bitArray[j] = 0})
                   <= Cardinality(SeedsOf(obj[f]))]_vars

\* three adds of two distinct items, with fewer cells at 1 than k times two
\* and some cell still 0
C30_Witness ==
    /\ last.op = "add" /\ Proper(last.f) /\ Len(calls[last.f]) = 3
    /\ Cardinality(Added(last.f)) = 2
    /\ Cardinality(Ones(last.f)) < 2 * Cardinality(SeedsOf(obj[last.f]))
    /\ Cardinality(Ones(last.f)) >= 2
    /\ Ones(last.f) # DOMAIN obj[last.f].bitArray

\* equal length, and code units that agree modulo 256
SameLowBytes(x, y) ==
    /\ Len(x) = Len(y)
    /\ \A i \in 1..Len(x) : x[i] % Byte = y[i] % Byte

\* C29: the hash reads only the low 8 bits of each code unit.  Two strings of
\* equal length whose code units agree modulo 256 have the same hash for
\* every seed, and a check of one of them after an add of the other returns
\* true.
C29_LowBytesOnly ==
    /\ \A x, y \in CollideItems : SameLowBytes(x, y) =>
          \A seed \in 0..MaxSeed : Hashes[x][seed] = Hashes[y][seed]
    /\ (/\ last.op = "check"
        /\ \E x \in Added(last.f) : SameLowBytes(x, last.item)) =>
          last.ret = "true"

\* a check of a string that was never added itself returns true because a
\* string of the same low bytes was added, while a string of the same length
\* and other low bytes is still rejected
C29_Witness ==
    /\ last.op = "check" /\ last.ret = "true" /\ Proper(last.f)
    /\ last.item \notin Added(last.f)
    /\ \E x \in Added(last.f) : SameLowBytes(x, last.item) /\ x # last.item
    /\ \E z \in CollideItems :
          /\ Len(z) = Len(last.item) /\ ~SameLowBytes(z, last.item)
          /\ check(obj[last.f], z).ret = "false"

=============================================================================
